---- MODULE Spec2Model ----
(***************************************************************************)
(* httpstatus: the request handlers of src/index.js (the current version   *)
(* of the file, lines 281-596) and the pure helpers they call.             *)
(*                                                                         *)
(* JavaScript strings are sequences of one-character strings, so that the  *)
(* conversions the handlers rely on (Number, parseInt, split, JSON.parse)  *)
(* are computed and not assumed.                                           *)
(***************************************************************************)
EXTENDS Integers, Sequences, FiniteSets, TLC

\* F applied to the value of e, which is computed once: a local constant
\* (const x = e) that the text after it reads several times.
With(e, F(_)) == CHOOSE v \in { F(x) : x \in {e} } : TRUE

\* ------------------------------------------------------------------------
\* JavaScript numbers: NaN, +-Infinity, or the exact decimal num / den.
\* ------------------------------------------------------------------------
NaN == [k |-> "nan"]

Infinity(neg) == [k |-> "inf", neg |-> neg]

Fin(num, den) == [k |-> "fin", num |-> num, den |-> den]

Digits == <<"0", "1", "2", "3", "4", "5", "6", "7", "8", "9">>

HexDigits == Digits \o <<"a", "b", "c", "d", "e", "f">>

IsDigit(c) == \E i \in 1..Len(Digits) : Digits[i] = c

IsHexDigit(c) == \E i \in 1..Len(HexDigits) : HexDigits[i] = c

DigitVal(c) == (CHOOSE i \in 1..Len(HexDigits) : HexDigits[i] = c) - 1

IsSpace(c) == c = " "

RECURSIVE Pow(_, _)
Pow(b, n) == IF n = 0 THEN 1 ELSE b * Pow(b, n - 1)

\* The value of a run of digits in the given radix.
RECURSIVE RadixVal(_, _)
RadixVal(s, radix) ==
  IF s = <<>> THEN 0
  ELSE RadixVal(SubSeq(s, 1, Len(s) - 1), radix) * radix + DigitVal(s[Len(s)])

\* Number of leading characters of s, from position i on, that are digits.
RECURSIVE DigitRun(_, _)
DigitRun(s, i) ==
  IF i <= Len(s) /\ IsDigit(s[i]) THEN 1 + DigitRun(s, i + 1) ELSE 0

RECURSIVE TrimStart(_)
TrimStart(s) ==
  IF s # <<>> /\ IsSpace(s[1]) THEN TrimStart(Tail(s)) ELSE s

RECURSIVE TrimEnd(_)
TrimEnd(s) ==
  IF s # <<>> /\ IsSpace(s[Len(s)]) THEN TrimEnd(SubSeq(s, 1, Len(s) - 1)) ELSE s

Trim(s) == TrimEnd(TrimStart(s))

InfinityText == <<"I", "n", "f", "i", "n", "i", "t", "y">>

\* The value of an unsigned decimal literal t whose integer part has nInt
\* digits, whose fraction has nFrac digits after a dot at nInt + 1 (none
\* when hasDot is false), and whose mantissa ends at mEnd.
DecimalValue(t, nInt, hasDot, nFrac, mEnd) ==
  With(mEnd + 1 <= Len(t) /\ t[mEnd + 1] \in {"e", "E"}, LAMBDA hasExp :
  With(hasExp /\ mEnd + 2 <= Len(t) /\ t[mEnd + 2] \in {"+", "-"}, LAMBDA hasSgn :
  With(IF hasSgn THEN mEnd + 3 ELSE mEnd + 2, LAMBDA eStart :
  With(IF hasExp THEN DigitRun(t, eStart) ELSE 0, LAMBDA nExp :
    LET tEnd  == IF hasExp THEN eStart + nExp - 1 ELSE mEnd
        mant  == RadixVal(SubSeq(t, 1, nInt)
                          \o (IF hasDot THEN SubSeq(t, nInt + 2, nInt + 1 + nFrac)
                              ELSE <<>>), 10)
        eAbs  == IF hasExp THEN RadixVal(SubSeq(t, eStart, eStart + nExp - 1), 10)
                 ELSE 0
        eVal  == IF hasSgn /\ t[mEnd + 2] = "-" THEN 0 - eAbs ELSE eAbs
    IN  IF nInt + nFrac = 0 \/ (hasExp /\ nExp = 0) \/ tEnd # Len(t) THEN NaN
        ELSE IF eVal - nFrac >= 0 THEN Fin(mant * Pow(10, eVal - nFrac), 1)
        ELSE Fin(mant, Pow(10, nFrac - eVal))))))

\* An unsigned decimal literal: digits [. digits] [e [sign] digits], with at
\* least one digit in the integer or the fraction part; anything else is NaN.
UnsignedDecimal(t) ==
  With(DigitRun(t, 1), LAMBDA nInt :
  With(nInt + 1 <= Len(t) /\ t[nInt + 1] = ".", LAMBDA hasDot :
  With(IF hasDot THEN DigitRun(t, nInt + 2) ELSE 0, LAMBDA nFrac :
    DecimalValue(t, nInt, hasDot, nFrac, IF hasDot THEN nInt + 1 + nFrac ELSE nInt))))

Negate(v) ==
  IF v.k = "fin" THEN Fin(0 - v.num, v.den)
  ELSE IF v.k = "inf" THEN Infinity(~v.neg)
  ELSE v

\* Number(string): surrounding white space is ignored, the empty string is
\* 0, a 0x prefix reads hexadecimal, otherwise a signed decimal literal or
\* Infinity; every other text is NaN.
ToNumber(s) ==
  With(Trim(s), LAMBDA t :
    IF t = <<>> THEN Fin(0, 1)
    ELSE IF Len(t) > 2 /\ t[1] = "0" /\ t[2] \in {"x", "X"}
              /\ \A i \in 3..Len(t) : IsHexDigit(t[i])
      THEN Fin(RadixVal(SubSeq(t, 3, Len(t)), 16), 1)
    ELSE With(IF t[1] \in {"+", "-"} THEN Tail(t) ELSE t, LAMBDA u :
      With(IF u = InfinityText THEN Infinity(FALSE) ELSE UnsignedDecimal(u), LAMBDA v :
        IF t[1] = "-" THEN Negate(v) ELSE v)))

\* parseInt(string, 10): leading white space and a sign are accepted, then
\* the longest prefix of decimal digits is read and the rest is ignored; no
\* digit at all gives NaN.
parseInt(s) ==
  With(TrimStart(s), LAMBDA t :
    With(IF t # <<>> /\ t[1] \in {"+", "-"} THEN Tail(t) ELSE t, LAMBDA u :
      With(DigitRun(u, 1), LAMBDA n :
        IF n = 0 THEN NaN
        ELSE IF t[1] = "-" THEN Fin(0 - RadixVal(SubSeq(u, 1, n), 10), 1)
        ELSE Fin(RadixVal(SubSeq(u, 1, n), 10), 1))))

isNaN(v) == v.k = "nan"

\* Number.isInteger
IsInteger(v) == v.k = "fin" /\ v.num % v.den = 0

\* The mathematical integer of an integral number.
IntOf(v) == v.num \div v.den

\* a <= b on numbers: false as soon as one side is NaN.
NumLeq(a, b) ==
  IF a.k = "nan" \/ b.k = "nan" THEN FALSE
  ELSE IF a.k = "inf" THEN a.neg \/ (b.k = "inf" /\ ~b.neg)
  ELSE IF b.k = "inf" THEN ~b.neg
  ELSE a.num * b.den <= b.num * a.den

MinStatusCode == 100

MaxStatusCode == 599

isValidStatusCode_600Accepted(code) ==
  LET num == code
  IN  IsInteger(num) /\ IntOf(num) >= MinStatusCode /\ IntOf(num) <= MaxStatusCode + 1

isValidStatusCode(code) ==
  LET num == code
  IN  IsInteger(num) /\ IntOf(num) >= MinStatusCode /\ IntOf(num) <= MaxStatusCode

\* ------------------------------------------------------------------------
\* Strings
\* ------------------------------------------------------------------------
\* String.prototype.includes for a one-character needle.
Includes(s, c) == \E i \in 1..Len(s) : s[i] = c

\* String.prototype.split for a one-character separator: the fields between
\* the separators, empty fields kept ("".split(",") is [""]).
RECURSIVE SplitFrom(_, _, _)
SplitFrom(s, sep, field) ==
  IF s = <<>> THEN <<field>>
  ELSE With(Tail(s), LAMBDA rest :
         IF s[1] = sep THEN <<field>> \o SplitFrom(rest, sep, <<>>)
         ELSE With(Append(field, s[1]), LAMBDA grown : SplitFrom(rest, sep, grown)))

Split(s, sep) == With(s, LAMBDA text : SplitFrom(text, sep, <<>>))

\* ------------------------------------------------------------------------
\* parseStatusCodeRange
\* ------------------------------------------------------------------------
\* for (let i = start; i <= end; i++) codes.push(i)
PushRun_EndExcluded(codes, start, end) ==
  codes \o [k \in 1..(end - start) |-> start + k - 1]

\* codes grows by the values i takes, in order; the loop has no other
\* effect and is written in closed form.
PushRun(codes, start, end) ==
  codes \o [k \in 1..(end - start + 1) |-> start + k - 1]

\* The hyphenated branch of the loop body, start and end converted.
ParseRun(codes, start, end) ==
  IF /\ IsInteger(start)
     /\ IsInteger(end)
     /\ NumLeq(start, end)
     /\ isValidStatusCode(start)
     /\ isValidStatusCode(end)
    THEN PushRun(codes, IntOf(start), IntOf(end))
    ELSE codes

\* One iteration of the loop over the parts: codes after handling part.
ParsePart(codes, part) ==
  IF Includes(part, "-")
    THEN With(Split(part, "-"), LAMBDA fields :
           With(ToNumber(fields[1]), LAMBDA start :
             With(ToNumber(fields[2]), LAMBDA end : ParseRun(codes, start, end))))
    ELSE With(ToNumber(part), LAMBDA code :
           IF isValidStatusCode(code) THEN Append(codes, IntOf(code)) ELSE codes)

RECURSIVE ParseParts(_, _)
ParseParts(codes, parts) ==
  IF parts = <<>> THEN codes
  ELSE With(ParsePart(codes, parts[1]), LAMBDA pushed :
         With(Tail(parts), LAMBDA rest : ParseParts(pushed, rest)))

parseStatusCodeRange(rangeStr) ==
  With(Split(rangeStr, ","), LAMBDA parts : ParseParts(<<>>, parts))

\* ------------------------------------------------------------------------
\* JavaScript values and JSON.parse
\* ------------------------------------------------------------------------
Undefined == [t |-> "undefined"]

Null == [t |-> "null"]

Bool(b) == [t |-> "boolean", b |-> b]

Num(n) == [t |-> "number", n |-> n]

Str(s) == [t |-> "string", s |-> s]

Arr(items) == [t |-> "array", items |-> items]

Obj(props) == [t |-> "object", props |-> props]

\* typeof: arrays, plain objects and null are all "object".
typeof(v) == IF v.t \in {"array", "object", "null"} THEN "object" ELSE v.t

\* Object.keys(v).length of an object or an array.
KeyCount(v) ==
  IF v.t = "array" THEN Len(v.items)
  ELSE IF v.t = "object" THEN Len(v.props)
  ELSE 0

Failed == [ok |-> FALSE]

Parsed(v, next) == [ok |-> TRUE, v |-> v, next |-> next]

RECURSIVE SkipWs(_, _)
SkipWs(s, i) == IF i <= Len(s) /\ IsSpace(s[i]) THEN SkipWs(s, i + 1) ELSE i

StartsWith(s, i, word) ==
  /\ i + Len(word) - 1 <= Len(s)
  /\ SubSeq(s, i, i + Len(word) - 1) = word

\* A JSON number at position i: -? (0 | [1-9] digits) (. digits)? (e sign? digits)?
JsonNumber(s, i) ==
  LET neg    == i <= Len(s) /\ s[i] = "-"
      a      == IF neg THEN i + 1 ELSE i
      run    == DigitRun(s, a)
      nInt   == IF run > 0 /\ s[a] = "0" THEN 1 ELSE run
      p      == a + nInt
      hasDot == p <= Len(s) /\ s[p] = "."
      nFrac  == IF hasDot THEN DigitRun(s, p + 1) ELSE 0
      q      == IF hasDot THEN p + 1 + nFrac ELSE p
      hasExp == q <= Len(s) /\ s[q] \in {"e", "E"}
      hasSgn == hasExp /\ q + 1 <= Len(s) /\ s[q + 1] \in {"+", "-"}
      eStart == IF hasSgn THEN q + 2 ELSE q + 1
      nExp   == IF hasExp THEN DigitRun(s, eStart) ELSE 0
      next   == IF hasExp THEN eStart + nExp ELSE q
  IN  IF nInt = 0 \/ (hasDot /\ nFrac = 0) \/ (hasExp /\ nExp = 0) THEN Failed
      ELSE Parsed(Num(ToNumber(SubSeq(s, i, next - 1))), next)

\* Position of the first double quote at or after i, or 0. Escape sequences
\* are not read: no modelled text holds a backslash.
RECURSIVE QuoteAt(_, _)
QuoteAt(s, i) ==
  IF i > Len(s) THEN 0 ELSE IF s[i] = "\"" THEN i ELSE QuoteAt(s, i + 1)

JsonString(s, i) ==
  LET j == QuoteAt(s, i + 1)
  IN  IF i > Len(s) \/ s[i] # "\"" \/ j = 0 THEN Failed
      ELSE Parsed(Str(SubSeq(s, i + 1, j - 1)), j + 1)

RECURSIVE JsonValue(_, _)
RECURSIVE JsonElements(_, _, _)
RECURSIVE JsonMembers(_, _, _)
RECURSIVE JsonMember(_, _, _, _)

\* The elements of an array after "[" or ",": value, then "," or "]".
JsonElements(s, i, items) ==
  With(JsonValue(s, SkipWs(s, i)), LAMBDA r :
    With(IF r.ok THEN SkipWs(s, r.next) ELSE 0, LAMBDA j :
      IF ~r.ok \/ j > Len(s) THEN Failed
      ELSE IF s[j] = "," THEN JsonElements(s, j + 1, Append(items, r.v))
      ELSE IF s[j] = "]" THEN Parsed(Arr(Append(items, r.v)), j + 1)
      ELSE Failed))

\* The value of a member after its key, which ends before position c.
JsonMember(s, key, c, props) ==
  With(IF c <= Len(s) /\ s[c] = ":" THEN JsonValue(s, SkipWs(s, c + 1)) ELSE Failed,
       LAMBDA r :
    With(IF r.ok THEN SkipWs(s, r.next) ELSE 0, LAMBDA j :
      IF ~r.ok \/ j > Len(s) THEN Failed
      ELSE IF s[j] = "," THEN JsonMembers(s, j + 1, Append(props, <<key, r.v>>))
      ELSE IF s[j] = "}" THEN Parsed(Obj(Append(props, <<key, r.v>>)), j + 1)
      ELSE Failed))

\* The members of an object after "{" or ",": string : value, then "," or "}".
JsonMembers(s, i, props) ==
  With(JsonString(s, SkipWs(s, i)), LAMBDA key :
    IF key.ok
      THEN With(SkipWs(s, key.next), LAMBDA c : JsonMember(s, key.v.s, c, props))
      ELSE Failed)

\* The value that starts at position i.
JsonValueAt(s, i) ==
  IF i > Len(s) THEN Failed
  ELSE IF StartsWith(s, i, <<"n", "u", "l", "l">>) THEN Parsed(Null, i + 4)
  ELSE IF StartsWith(s, i, <<"t", "r", "u", "e">>) THEN Parsed(Bool(TRUE), i + 4)
  ELSE IF StartsWith(s, i, <<"f", "a", "l", "s", "e">>) THEN Parsed(Bool(FALSE), i + 5)
  ELSE IF s[i] = "\"" THEN JsonString(s, i)
  ELSE IF s[i] = "[" THEN
    With(SkipWs(s, i + 1), LAMBDA j :
      IF j <= Len(s) /\ s[j] = "]"
        THEN Parsed(Arr(<<>>), j + 1)
        ELSE JsonElements(s, i + 1, <<>>))
  ELSE IF s[i] = "{" THEN
    With(SkipWs(s, i + 1), LAMBDA j :
      IF j <= Len(s) /\ s[j] = "}"
        THEN Parsed(Obj(<<>>), j + 1)
        ELSE JsonMembers(s, i + 1, <<>>))
  ELSE JsonNumber(s, i)

JsonValue(s, i) == With(i, LAMBDA at : JsonValueAt(s, at))

\* JSON.parse: one value with optional white space around it; anything else
\* throws (ok = FALSE).
JSONparse(str) ==
  With(JsonValue(str, SkipWs(str, 1)), LAMBDA r :
    IF r.ok /\ SkipWs(str, r.next) = Len(str) + 1 THEN r ELSE Failed)

\* try { return JSON.parse(str) } catch { return undefined }
tryParseJSON(str) ==
  With(JSONparse(str), LAMBDA r : IF r.ok THEN r.v ELSE Undefined)

\* String(v) of a number that is an integer or a short decimal fraction.
RECURSIVE NatToChars(_)
NatToChars(n) ==
  IF n < 10 THEN <<Digits[n + 1]>> ELSE NatToChars(n \div 10) \o <<Digits[(n % 10) + 1]>>

RECURSIVE FracToChars(_, _)
FracToChars(num, den) ==
  IF num = 0 \/ den = 1 THEN <<>>
  ELSE <<Digits[((num * 10) \div den) + 1]>> \o FracToChars((num * 10) % den, den)

NumToChars(v) ==
  IF v.k = "nan" THEN <<"N", "a", "N">>
  ELSE IF v.k = "inf" THEN (IF v.neg THEN <<"-">> ELSE <<>>) \o InfinityText
  ELSE LET a == IF v.num < 0 THEN 0 - v.num ELSE v.num
           whole == NatToChars(a \div v.den)
           frac == FracToChars(a % v.den, v.den)
       IN  (IF v.num < 0 THEN <<"-">> ELSE <<>>)
             \o whole \o (IF frac = <<>> THEN <<>> ELSE <<".">> \o frac)

\* String(v) of a string, a number or a boolean.
StringOf(v) ==
  IF v.t = "string" THEN v.s
  ELSE IF v.t = "number" THEN NumToChars(v.n)
  ELSE IF v.t = "boolean" THEN
    (IF v.b THEN <<"t", "r", "u", "e">> ELSE <<"f", "a", "l", "s", "e">>)
  ELSE <<>>

\* if (v): undefined, null and the empty string are falsy; objects are truthy.
Truthy(v) ==
  IF v.t \in {"undefined", "null"} THEN FALSE
  ELSE IF v.t = "string" THEN v.s # <<>>
  ELSE IF v.t = "boolean" THEN v.b
  ELSE TRUE

\* a ?? b
Coalesce(a, b) == IF a.t \in {"undefined", "null"} THEN b ELSE a

\* ------------------------------------------------------------------------
\* Requests
\* ------------------------------------------------------------------------
MaxTime == 3

MaxIdle == 0

Reqs == {1}

\* req.params.code of requests to /:code.
CodeSegments ==
  { <<"1", "0", "0">>,
    <<"5", "9", "9">>,
    <<"4", "0", "4">>,
    <<"9", "9">>,
    <<"6", "0", "0">>,
    <<"a", "b", "c">>,
    <<"2", "e", "2">>,
    <<"2", "0", "0", ".", "5">>,
    <<"-", "2", "0", "0">>,
    <<"e", "c", "h", "o">> }

\* req.params.code of requests to /redirect/:code.
RedirectSegments ==
  { <<"3", "0", "0">>,
    <<"3", "0", "1">>,
    <<"3", "0", "8">>,
    <<"2", "9", "9">>,
    <<"3", "0", "9">>,
    <<"3", "e", "2">>,
    <<"a", "b", "c">> }

\* req.params.range of requests to /random/:range.
RangeSegments ==
  { <<"2", "0", "0", ",", "4", "0", "4">>,
    <<"1", "0", "0", "-", "1", "0", "2">>,
    <<"7", "0", "0", "-", "6", "5", "0">>,
    <<"a", "b", "c", ",", "2", "0", "0">>,
    <<"2", "0", "4", "-", "2", "0", "2">>,
    <<"2", "0", "0", ",", "2", "0", "0">>,
    <<"5", "9", "9", "-", "6", "0", "0">>,
    <<"2", "0", "0", "-", "2", "0", "1", "-", "x">> }

\* req.query.sleep: absent, or the text given.
SleepValues ==
  { Undefined,
    Str(<<"a", "b", "c">>),
    Str(<<"-", "5">>),
    Str(<<"0">>),
    Str(<<"2">>),
    Str(<<"2", "a", "b", "c">>) }

\* req.query.body: absent, or the text given.
BodyValues ==
  { Undefined,
    Str(<<"h", "e", "l", "l", "o">>),
    Str(<<"{", "\"", "a", "\"", ":", "1", "}">>),
    Str(<<"[", "1", "]">>),
    Str(<<"5">>),
    Str(<<"n", "u", "l", "l">>) }

\* req.query.to: absent, or the text given.
ToValues ==
  { Undefined,
    Str(<<>>),
    Str(<<"h", "t", "t", "p", "s", ":", "/", "/", "e", "x", "a", "m", "p", "l", "e", ".", "c", "o", "m">>),
    Str(<<"n", "o", "w", "h", "e", "r", "e">>) }

\* req.body after express.json() / express.urlencoded(): {} when the
\* request carried no body, otherwise the decoded object or array.
RequestBodies ==
  { Obj(<<>>),
    Obj(<< << <<"x">>, Num(Fin(1, 1)) >> >>),
    Arr(<< Num(Fin(1, 1)) >>) }

Methods == {"GET", "POST", "PUT", "PATCH"}

AcceptValues == {"", "application/json"}

CodeRequests ==
  [ route : {"code"}, param : CodeSegments, method : Methods, sleep : SleepValues,
    body : BodyValues, reqBody : RequestBodies, accept : AcceptValues,
    to : {Undefined} ]

RandomRequests ==
  [ route : {"random"}, param : RangeSegments, method : Methods, sleep : SleepValues,
    body : BodyValues, reqBody : RequestBodies, accept : AcceptValues,
    to : {Undefined} ]

RedirectRequests ==
  [ route : {"redirect"}, param : RedirectSegments, method : {"GET"},
    sleep : SleepValues, body : {Undefined}, reqBody : {Obj(<<>>)},
    accept : AcceptValues, to : ToValues ]

NoRequest == [route |-> "none"]

\* The path segments /:code hands on to the later routes.
ReservedSegments ==
  { <<"r", "a", "n", "d", "o", "m">>,
    <<"e", "c", "h", "o">>,
    <<"h", "e", "a", "l", "t", "h">>,
    <<"d", "o", "c", "s">>,
    <<"o", "p", "e", "n", "a", "p", "i", ".", "j", "s", "o", "n">>,
    <<"o", "p", "e", "n", "a", "p", "i", ".", "y", "a", "m", "l">>,
    <<>> }

statusDescriptions ==
  (200 :> "OK: The request has succeeded.")
  @@ (201 :> "Created: The request has been fulfilled and resulted in a new resource being created.")
  @@ (202 :> "Accepted: The request has been accepted for processing, but the processing has not been completed.")
  @@ (204 :> "No Content: The server successfully processed the request, but is not returning any content.")
  @@ (301 :> "Moved Permanently: The resource has been moved to a new URL.")
  @@ (302 :> "Found: The resource resides temporarily under a different URL.")
  @@ (400 :> "Bad Request: The server could not understand the request due to invalid syntax.")
  @@ (401 :> "Unauthorized: The client must authenticate itself to get the requested response.")
  @@ (403 :> "Forbidden: The client does not have access rights to the content.")
  @@ (404 :> "Not Found: The server can not find the requested resource.")
  @@ (500 :> "Internal Server Error: The server has encountered a situation it doesn't know how to handle.")
  @@ (502 :> "Bad Gateway: The server was acting as a gateway or proxy and received an invalid response.")
  @@ (503 :> "Service Unavailable: The server is not ready to handle the request.")
  @@ (504 :> "Gateway Timeout: The server is acting as a gateway and cannot get a response in time.")

\* statusDescriptions[code] || ''
getStatusDescription(code) ==
  IF IsInteger(code) /\ IntOf(code) \in DOMAIN statusDescriptions
    THEN statusDescriptions[IntOf(code)]
    ELSE ""

getMDNLink(code) ==
  <<"https://developer.mozilla.org/en-US/docs/Web/HTTP/Status/", code>>

\* ------------------------------------------------------------------------
\* Responses
\* ------------------------------------------------------------------------
NoResponse == [kind |-> "none"]

\* next(): the request is handed on to the later routes.
NextRoute == [kind |-> "next"]

\* res.status(status).send(text)
SendRes(status, text) ==
  [kind |-> "send", status |-> status, ctype |-> "default", body |-> [t |-> "text", text |-> text]]

\* res.status(status).type('text/plain').send(text)
TextRes(status, text) ==
  [kind |-> "send", status |-> status, ctype |-> "text/plain", body |-> Str(text)]

\* res.status(status).json(body)
JsonRes(status, body) ==
  [kind |-> "json", status |-> status, ctype |-> "application/json", body |-> body]

\* res.redirect(status, to)
RedirectRes(status, to) ==
  [kind |-> "redirect", status |-> status, ctype |-> "default", location |-> to]

\* The descriptive object the handlers answer with when there is no custom
\* body. description is res.statusMessage || '' read before the head is
\* written, which is not part of the handler's own state and is left out.
Envelope(statusCode, requestedCode, definition, startTime, replyTime) ==
  [ t |-> "envelope",
    code |-> statusCode,
    requestedCode |-> requestedCode,
    definition |-> definition,
    details |-> getStatusDescription(Fin(statusCode, 1)),
    mdn |-> getMDNLink(statusCode),
    startTime |-> startTime,
    replyTime |-> replyTime,
    duration_in_ms |-> replyTime - startTime,
    duration_in_seconds |-> Fin(replyTime - startTime, 1000) ]

\* ------------------------------------------------------------------------
\* The parts the /:code and /random/:range handlers share
\* ------------------------------------------------------------------------
\* if (sleep) { const ms = parseInt(sleep, 10); if (!isNaN(ms) && ms > 0) ... }
\* The delay to wait for, 0 when the handler does not wait.
DelayOf(sleep) ==
  IF Truthy(sleep)
    THEN LET ms == parseInt(sleep.s)
         IN  IF ~isNaN(ms) /\ IntOf(ms) > 0 THEN IntOf(ms) ELSE 0
    ELSE 0

\* let customBody; if (bodyParam !== undefined) ... else if (...) ...
ResolveBody(q) ==
  IF q.body # Undefined
    THEN Coalesce(tryParseJSON(q.body.s), q.body)
  ELSE IF /\ q.method \in {"POST", "PUT", "PATCH"}
          /\ Truthy(q.reqBody)
          /\ KeyCount(q.reqBody) > 0
    THEN q.reqBody
  ELSE Undefined

Compose_OnlyStringsAsText(statusCode, requestedCode, definition, startTime, replyTime, customBody) ==
  IF customBody # Undefined
    THEN IF typeof(customBody) # "string"
           THEN JsonRes(statusCode, customBody)
           ELSE TextRes(statusCode, StringOf(customBody))
    ELSE JsonRes(statusCode,
                 Envelope(statusCode, requestedCode, definition, startTime, replyTime))

Compose_PlainTextDefault(statusCode, requestedCode, definition, startTime, replyTime, customBody) ==
  IF customBody # Undefined
    THEN IF typeof(customBody) = "object"
           THEN JsonRes(statusCode, customBody)
           ELSE TextRes(statusCode, StringOf(customBody))
    ELSE TextRes(statusCode, NatToChars(statusCode))

Compose_StatusDropped(statusCode, requestedCode, definition, startTime, replyTime, customBody) ==
  IF customBody # Undefined
    THEN IF typeof(customBody) = "object"
           THEN JsonRes(200, customBody)
           ELSE TextRes(200, StringOf(customBody))
    ELSE JsonRes(statusCode,
                 Envelope(statusCode, requestedCode, definition, startTime, replyTime))

\* The response of the two handlers once the status code is known.
Compose(statusCode, requestedCode, definition, startTime, replyTime, customBody) ==
  IF customBody # Undefined
    THEN IF typeof(customBody) = "object"
           THEN JsonRes(statusCode, customBody)
           ELSE TextRes(statusCode, StringOf(customBody))
    ELSE JsonRes(statusCode,
                 Envelope(statusCode, requestedCode, definition, startTime, replyTime))

\* ------------------------------------------------------------------------
\* State
\* ------------------------------------------------------------------------
VARIABLES
  now,           \* the clock new Date() reads, in milliseconds
  pc,            \* per request: "idle", "sleeping" (awaiting the timer), "done"
  req,           \* per request: the request being handled
  startTimeObj,  \* per request: startTimeObj
  statusCode,    \* per request: statusCode, a number
  codes,         \* per request: codes of /random/:range
  timerDue,      \* per request: the time the setTimeout callback is due
  customBody,    \* per request: customBody
  replyTimeObj,  \* per request: replyTimeObj
  res,           \* per request: the response sent
  trace,         \* per request: the steps the handler has taken, in order
  rangeStr,      \* the argument of a stand-alone parseStatusCodeRange call
  parsed         \* its result, once it has returned

vars ==
  << now, pc, req, startTimeObj, statusCode, codes, timerDue, customBody,
     replyTimeObj, res, trace, rangeStr, parsed >>

NotParsed == [done |-> FALSE, codes |-> <<>>]

InitRequests ==
  /\ now = 0
  /\ pc = [r \in Reqs |-> "idle"]
  /\ req = [r \in Reqs |-> NoRequest]
  /\ startTimeObj = [r \in Reqs |-> -1]
  /\ statusCode = [r \in Reqs |-> NaN]
  /\ codes = [r \in Reqs |-> <<>>]
  /\ timerDue = [r \in Reqs |-> -1]
  /\ customBody = [r \in Reqs |-> Undefined]
  /\ replyTimeObj = [r \in Reqs |-> -1]
  /\ res = [r \in Reqs |-> NoResponse]
  /\ trace = [r \in Reqs |-> <<>>]

Init ==
  /\ InitRequests
  /\ rangeStr = <<>>
  /\ parsed = NotParsed

\* ------------------------------------------------------------------------
\* Handlers
\* ------------------------------------------------------------------------
\* A handler's const locals are bound with \E x \in {value}, which computes
\* the value once, where it is declared.
\* A validation failure: res.status(400).send(message), and the handler
\* returns.
Reject_AfterResolve(r, message, steps) ==
  /\ res' = [res EXCEPT ![r] = SendRes(400, message)]
  /\ pc' = [pc EXCEPT ![r] = "done"]
  /\ customBody' = [customBody EXCEPT ![r] = ResolveBody(req'[r])]
  /\ trace' = [trace EXCEPT ![r] = steps \o <<"resolve", "reject">>]
  /\ UNCHANGED <<timerDue, replyTimeObj>>

Reject(r, message, steps) ==
  /\ res' = [res EXCEPT ![r] = SendRes(400, message)]
  /\ pc' = [pc EXCEPT ![r] = "done"]
  /\ trace' = [trace EXCEPT ![r] = steps \o <<"reject">>]
  /\ UNCHANGED <<timerDue, customBody, replyTimeObj>>

Suspend_DelayDropped(r, ms, steps) ==
  /\ timerDue' = [timerDue EXCEPT ![r] = now]
  /\ pc' = [pc EXCEPT ![r] = "sleeping"]
  /\ trace' = [trace EXCEPT ![r] = steps \o <<"delay">>]
  /\ UNCHANGED <<customBody, replyTimeObj, res>>

\* await new Promise((resolve) => setTimeout(resolve, ms)): the handler is
\* suspended until the timer's callback runs.
Suspend(r, ms, steps) ==
  /\ timerDue' = [timerDue EXCEPT ![r] = now + ms]
  /\ pc' = [pc EXCEPT ![r] = "sleeping"]
  /\ trace' = [trace EXCEPT ![r] = steps \o <<"delay">>]
  /\ UNCHANGED <<customBody, replyTimeObj, res>>

\* From "Custom response body" to the end of the handler: resolve the
\* custom body, read the reply time, send the response.
Respond(r, q, sc, definition, start, steps) ==
  \E body \in {ResolveBody(q)} :
      /\ customBody' = [customBody EXCEPT ![r] = body]
      /\ replyTimeObj' = [replyTimeObj EXCEPT ![r] = now]
      /\ res' = [res EXCEPT ![r] = Compose(IntOf(sc), q.param, definition, start, now, body)]
      /\ pc' = [pc EXCEPT ![r] = "done"]
      /\ trace' = [trace EXCEPT ![r] = steps \o <<"resolve", "reply">>]

\* app.all('/:code'), up to its await or, without one, to its end.
CodeHandler(r, q) ==
  /\ pc[r] = "idle"
  /\ q.route = "code"
  /\ req' = [req EXCEPT ![r] = q]
  /\ UNCHANGED <<now, codes, rangeStr, parsed>>
  /\ IF q.param \in ReservedSegments
       THEN /\ res' = [res EXCEPT ![r] = NextRoute]
            /\ pc' = [pc EXCEPT ![r] = "done"]
            /\ trace' = [trace EXCEPT ![r] = <<"next">>]
            /\ UNCHANGED <<startTimeObj, statusCode, timerDue, customBody, replyTimeObj>>
       ELSE \E sc \in {ToNumber(q.param)}, ms \in {DelayOf(q.sleep)} :
            LET definition == getStatusDescription(sc)
            IN  /\ startTimeObj' = [startTimeObj EXCEPT ![r] = now]
                /\ statusCode' = [statusCode EXCEPT ![r] = sc]
                /\ IF ~isValidStatusCode(sc)
                     THEN Reject(r, "Invalid HTTP status code", <<"start", "validate">>)
                   ELSE IF ms > 0
                     THEN Suspend(r, ms, <<"start", "validate">>)
                   ELSE /\ Respond(r, q, sc, definition, now, <<"start", "validate">>)
                        /\ UNCHANGED timerDue

\* The indexes Math.floor(Math.random() * codes.length) can give, counted
\* from 1: Math.random() is any number in [0, 1).
RandomIndex_LastNeverPicked(cs) == 1..(Len(cs) - 1)

RandomIndex(cs) == 1..Len(cs)

\* app.all('/random/:range') from "Pick a random code" on, with codes
\* parsed and not empty, up to its await or, without one, to its end.
RandomSelect(r, q, cs) ==
  \E i \in RandomIndex(cs), ms \in {DelayOf(q.sleep)} :
    LET sc == Fin(cs[i], 1)
        definition == getStatusDescription(sc)
    IN  /\ statusCode' = [statusCode EXCEPT ![r] = sc]
        /\ IF ms > 0
             THEN Suspend(r, ms, <<"start", "validate", "select">>)
             ELSE /\ Respond(r, q, sc, definition, now, <<"start", "validate", "select">>)
                  /\ UNCHANGED timerDue

\* app.all('/random/:range'), up to its await or, without one, to its end.
RandomHandler(r, q) ==
  /\ pc[r] = "idle"
  /\ q.route = "random"
  /\ req' = [req EXCEPT ![r] = q]
  /\ UNCHANGED <<now, rangeStr, parsed>>
  /\ \E cs \in {parseStatusCodeRange(q.param)} :
         /\ startTimeObj' = [startTimeObj EXCEPT ![r] = now]
         /\ codes' = [codes EXCEPT ![r] = cs]
         /\ IF Len(cs) = 0
              THEN /\ Reject(r, "Invalid range for random status codes", <<"start", "validate">>)
                   /\ UNCHANGED statusCode
              ELSE RandomSelect(r, q, cs)

TimerFire_WaitsForOthers(r) ==
  /\ pc[r] = "sleeping"
  /\ now >= timerDue[r]
  /\ \A o \in DOMAIN pc \ {r} : pc[o] # "sleeping"
  /\ Respond(r, req[r], statusCode[r], getStatusDescription(statusCode[r]),
             startTimeObj[r], trace[r])
  /\ UNCHANGED <<now, req, startTimeObj, statusCode, codes, timerDue, rangeStr, parsed>>

\* The timer's callback runs, no earlier than the time it is due, and the
\* handler resumes after its await and runs to its end.
TimerFire(r) ==
  /\ pc[r] = "sleeping"
  /\ now >= timerDue[r]
  /\ Respond(r, req[r], statusCode[r], getStatusDescription(statusCode[r]),
             startTimeObj[r], trace[r])
  /\ UNCHANGED <<now, req, startTimeObj, statusCode, codes, timerDue, rangeStr, parsed>>

\* !isValidStatusCode(statusCode) || statusCode < 300 || statusCode > 308
InvalidRedirectCode_308Refused(sc) ==
  ~isValidStatusCode(sc) \/ IntOf(sc) < 300 \/ IntOf(sc) >= 308

InvalidRedirectCode(sc) ==
  ~isValidStatusCode(sc) \/ IntOf(sc) < 300 \/ IntOf(sc) > 308

\* app.get('/redirect/:code')
RedirectHandler(r, q) ==
  /\ pc[r] = "idle"
  /\ q.route = "redirect"
  /\ q.method = "GET"
  /\ req' = [req EXCEPT ![r] = q]
  /\ UNCHANGED <<now, startTimeObj, codes, rangeStr, parsed>>
  /\ \E sc \in {ToNumber(q.param)} :
         /\ statusCode' = [statusCode EXCEPT ![r] = sc]
         /\ IF InvalidRedirectCode(sc)
              THEN Reject(r, "Invalid redirect status code (must be 300-308)", <<"validate">>)
            ELSE IF ~Truthy(q.to)
              THEN Reject(r, "Missing \"to\" query parameter for redirect target", <<"validate">>)
            ELSE /\ res' = [res EXCEPT ![r] = RedirectRes(IntOf(sc), q.to)]
                 /\ pc' = [pc EXCEPT ![r] = "done"]
                 /\ trace' = [trace EXCEPT ![r] = <<"validate", "redirect">>]
                 /\ UNCHANGED <<timerDue, customBody, replyTimeObj>>

\* A millisecond passes: before a request arrives, up to MaxIdle, and while
\* a request waits for its timer, up to MaxTime.
Tick ==
  /\ now < MaxTime
  /\ \E r \in Reqs : pc[r] = "sleeping" \/ (pc[r] = "idle" /\ now < MaxIdle)
  /\ now' = now + 1
  /\ UNCHANGED << pc, req, startTimeObj, statusCode, codes, timerDue, customBody,
                  replyTimeObj, res, trace, rangeStr, parsed >>

\* A request reaches a handler only while its slot is idle; the guard is
\* repeated ahead of the choice of the request so that it is decided first.
Next ==
  \/ \E r \in Reqs : pc[r] = "idle" /\ \E q \in CodeRequests : CodeHandler(r, q)
  \/ \E r \in Reqs : pc[r] = "idle" /\ \E q \in RandomRequests : RandomHandler(r, q)
  \/ \E r \in Reqs : pc[r] = "idle" /\ \E q \in RedirectRequests : RedirectHandler(r, q)
  \/ \E r \in Reqs : TimerFire(r)
  \/ Tick

Spec == Init /\ [][Next]_vars

\* ------------------------------------------------------------------------
\* Several requests in flight
\* ------------------------------------------------------------------------
\* The latest time at which a request arrives.
MaxArrival == 1

\* The requests in flight at once.
ConcReqs == {1, 2}

ConcSleepValues == { Undefined, Str(<<"1">>), Str(<<"2">>) }

ConcCodeRequests ==
  [ route : {"code"}, param : { <<"4", "0", "4">>, <<"a", "b", "c">> },
    method : {"GET"}, sleep : ConcSleepValues,
    body : { Undefined, Str(<<"h", "e", "l", "l", "o">>) },
    reqBody : {Obj(<<>>)}, accept : {""}, to : {Undefined} ]

ConcRandomRequests ==
  [ route : {"random"}, param : { <<"2", "0", "0", ",", "4", "0", "4">> },
    method : {"GET"}, sleep : { Undefined, Str(<<"2">>) }, body : {Undefined},
    reqBody : {Obj(<<>>)}, accept : {""}, to : {Undefined} ]

ConcRedirectRequests ==
  [ route : {"redirect"}, param : { <<"3", "0", "1">> }, method : {"GET"},
    sleep : {Undefined}, body : {Undefined}, reqBody : {Obj(<<>>)},
    accept : {""}, to : { Undefined, Str(<<"n", "o", "w", "h", "e", "r", "e">>) } ]

InitConc ==
  /\ now = 0
  /\ pc = [r \in ConcReqs |-> "idle"]
  /\ req = [r \in ConcReqs |-> NoRequest]
  /\ startTimeObj = [r \in ConcReqs |-> -1]
  /\ statusCode = [r \in ConcReqs |-> NaN]
  /\ codes = [r \in ConcReqs |-> <<>>]
  /\ timerDue = [r \in ConcReqs |-> -1]
  /\ customBody = [r \in ConcReqs |-> Undefined]
  /\ replyTimeObj = [r \in ConcReqs |-> -1]
  /\ res = [r \in ConcReqs |-> NoResponse]
  /\ trace = [r \in ConcReqs |-> <<>>]
  /\ rangeStr = <<>>
  /\ parsed = NotParsed

\* A millisecond passes: while a request may still arrive, up to
\* MaxArrival, and while a timer that was set is not yet due.
TickConc ==
  /\ \E r \in ConcReqs :
       \/ pc[r] = "idle" /\ now < MaxArrival
       \/ pc[r] = "sleeping" /\ now < timerDue[r]
  /\ now' = now + 1
  /\ UNCHANGED << pc, req, startTimeObj, statusCode, codes, timerDue, customBody,
                  replyTimeObj, res, trace, rangeStr, parsed >>

\* The event loop runs one callback at a time, each to its end or to its
\* await: the handler of a request that arrived, or a timer's callback.
NextConc ==
  \/ \E r \in ConcReqs : pc[r] = "idle" /\ \E q \in ConcCodeRequests : CodeHandler(r, q)
  \/ \E r \in ConcReqs : pc[r] = "idle" /\ \E q \in ConcRandomRequests : RandomHandler(r, q)
  \/ \E r \in ConcReqs : pc[r] = "idle" /\ \E q \in ConcRedirectRequests : RedirectHandler(r, q)
  \/ \E r \in ConcReqs : TimerFire(r)
  \/ TickConc

\* Time passes, and the event loop runs the callback of every timer that is
\* due: no callback of the program runs for ever.
SpecConc ==
  /\ InitConc
  /\ [][NextConc]_vars
  /\ WF_vars(TickConc)
  /\ \A r \in ConcReqs : WF_vars(TimerFire(r))

\* ------------------------------------------------------------------------
\* parseStatusCodeRange on its own
\* ------------------------------------------------------------------------
MaxParts == 2

\* The texts between the separators of the range strings tried.
FieldTexts ==
  { <<"1", "0", "0">>,
    <<"1", "0", "2">>,
    <<"5", "9", "9">>,
    <<"6", "0", "0">>,
    <<"a", "b">> }

\* The comma-separated parts tried: a single field, two fields around a
\* hyphen, parts below the lowest code, empty parts and fields, and parts
\* with more than one hyphen.
PartTexts ==
  FieldTexts
    \cup { a \o <<"-">> \o b : a \in FieldTexts, b \in FieldTexts }
    \cup { <<"9", "9">>,
           <<"9", "9", "-", "1", "0", "2">>,
           <<>>,
           <<"1", "0", "0", "-">>,
           <<"-", "1", "0", "2">>,
           <<"1", "0", "0", "-", "1", "0", "2", "-", "6", "0", "0">>,
           <<"1", "0", "0", "-", "-", "1", "0", "2">> }

RECURSIVE JoinWith(_, _)
JoinWith(texts, sep) ==
  IF Len(texts) = 1 THEN texts[1]
  ELSE texts[1] \o <<sep>> \o JoinWith(Tail(texts), sep)

\* The range strings tried: 1 to MaxParts parts joined by commas.
InitParse ==
  /\ InitRequests
  /\ \E n \in 1..MaxParts : \E parts \in [1..n -> PartTexts] :
       rangeStr = JoinWith(parts, ",")
  /\ parsed = NotParsed

\* const codes = parseStatusCodeRange(rangeStr)
ParseCall ==
  /\ ~parsed.done
  /\ parsed' = [done |-> TRUE, codes |-> parseStatusCodeRange(rangeStr)]
  /\ UNCHANGED << now, pc, req, startTimeObj, statusCode, codes, timerDue, customBody,
                  replyTimeObj, res, trace, rangeStr >>

NextParse == ParseCall

SpecParse == InitParse /\ [][NextParse]_vars

\* ------------------------------------------------------------------------
\* Properties
\* ------------------------------------------------------------------------
Answered(r) == pc[r] = "done" /\ res[r].kind \in {"send", "json", "redirect"}

Took(r, step) == \E i \in 1..Len(trace[r]) : trace[r][i] = step

Elements(seq) == { seq[i] : i \in 1..Len(seq) }

\* The decimal numeral of every status code.
CodeNumeral == [c \in MinStatusCode..MaxStatusCode |-> NatToChars(c)]

\* C1: a request to /{c}, c the decimal numeral of an integer in 100..599,
\* is answered with status c, whatever its method, sleep and bodies are.
C1_StatusEqualsCode ==
  \A r \in Reqs :
    (pc[r] = "done" /\ req[r].route = "code") =>
      \A c \in MinStatusCode..MaxStatusCode :
        req[r].param = CodeNumeral[c] => (Answered(r) /\ res[r].status = c)

C1_Witness ==
  \E r \in Reqs :
    /\ pc[r] = "done" /\ req[r].route = "code"
    /\ req[r].param = NatToChars(404)
    /\ req[r].method = "POST" /\ Took(r, "delay") /\ customBody[r] # Undefined
    /\ res[r].status = 404

\* C2: a request to /{c} whose segment is not reserved and whose numeric
\* value (as Number reads the text) is not an integer in 100..599 is
\* answered with status 400, whatever its method, sleep and bodies are.
C2_InvalidCodeIs400 ==
  \A r \in Reqs :
    LET v == ToNumber(req[r].param)
        inRange == /\ v.k = "fin" /\ v.num % v.den = 0
                   /\ v.num \div v.den \in MinStatusCode..MaxStatusCode
    IN  (/\ pc[r] = "done" /\ req[r].route = "code"
         /\ req[r].param \notin ReservedSegments
         /\ ~inRange)
          => (res[r].kind = "send" /\ res[r].status = 400 /\ ~Took(r, "reply"))

C2_Witness ==
  \E r \in Reqs :
    /\ pc[r] = "done" /\ req[r].route = "code"
    /\ req[r].param = NatToChars(600)
    /\ req[r].method = "PUT" /\ DelayOf(req[r].sleep) > 0 /\ req[r].body # Undefined
    /\ res[r].status = 400

\* The status code a text stands for, 0 when it stands for none.
CodeOfText(text) ==
  LET v == ToNumber(text)
  IN  IF v.k = "fin" /\ v.num % v.den = 0
         /\ v.num \div v.den \in MinStatusCode..MaxStatusCode
        THEN v.num \div v.den ELSE 0

\* What one comma-separated part contributes: how many codes, and the first.
\* The start and the end of a hyphenated part are its first two fields.
PartFirst(part) ==
  IF Includes(part, "-") THEN CodeOfText(Split(part, "-")[1]) ELSE CodeOfText(part)

PartLen(part) ==
  IF Includes(part, "-")
    THEN LET s == CodeOfText(Split(part, "-")[1])
             e == CodeOfText(Split(part, "-")[2])
         IN  IF s # 0 /\ e # 0 /\ s <= e THEN e - s + 1 ELSE 0
    ELSE IF CodeOfText(part) # 0 THEN 1 ELSE 0

\* How many codes the parts before the j-th contribute.
RECURSIVE PartOffset(_, _)
PartOffset(parts, j) ==
  IF j = 1 THEN 0 ELSE PartOffset(parts, j - 1) + PartLen(parts[j - 1])

\* C3: parseStatusCodeRange returns, part after part, the ascending run
\* start..end of a hyphenated part whose start and end are codes with
\* start <= end, the code of a part that is a code, and nothing for any
\* other part; duplicates stay, nothing is sorted, every element is a code.
C3_ParseIsConcatenation ==
  parsed.done =>
    LET parts == Split(rangeStr, ",")
        out == parsed.codes
    IN  /\ Len(out) = PartOffset(parts, Len(parts) + 1)
        /\ \A j \in 1..Len(parts) :
             LET offset == PartOffset(parts, j)
                 first == PartFirst(parts[j])
             IN  \A k \in 1..PartLen(parts[j]) : out[offset + k] = first + k - 1
        /\ \A i \in 1..Len(out) : out[i] \in MinStatusCode..MaxStatusCode

C3_Witness ==
  /\ parsed.done
  /\ rangeStr = <<"1", "0", "2", "-", "1", "0", "0", ",", "1", "0", "0", "-", "1", "0", "2">>
  /\ parsed.codes = <<100, 101, 102>>

\* C4: /random/{r} is answered 400, with no selection, when
\* parseStatusCodeRange(r) is empty; otherwise the status is the selected
\* code, an element of parseStatusCodeRange(r), and the selection the
\* handler makes once it has parsed r can fall on every element of it.
C4_RandomWithinRange ==
  \A r \in Reqs :
    /\ (pc[r] # "idle" /\ req[r].route = "random") =>
         LET cs == parseStatusCodeRange(req[r].param)
         IN  IF cs = <<>>
               THEN /\ pc[r] = "done" /\ res[r].kind = "send" /\ res[r].status = 400
                    /\ ~Took(r, "select")
               ELSE /\ IntOf(statusCode[r]) \in Elements(cs)
                    /\ pc[r] = "done" => (Answered(r) /\ res[r].status = IntOf(statusCode[r]))
    /\ pc[r] = "idle" =>
         \A range \in RangeSegments : \A cs \in {parseStatusCodeRange(range)} :
           \A c \in Elements(cs) :
             ENABLED (\E q \in RandomRequests :
                        /\ q.param = range
                        /\ RandomSelect(r, q, cs)
                        /\ statusCode'[r] = Fin(c, 1))

C4_Witness ==
  \E r \in Reqs :
    /\ pc[r] = "done" /\ req[r].route = "random"
    /\ req[r].param = <<"2", "0", "0", ",", "4", "0", "4">>
    /\ res[r].status = 404

\* The position of a step in a request's trace, 0 when it was not taken.
StepAt(r, step) ==
  IF Took(r, step) THEN CHOOSE i \in 1..Len(trace[r]) : trace[r][i] = step ELSE 0

\* The custom body the stated priority order gives a request: the decoded
\* body parameter, or its raw text when decoding fails; else the request
\* body of a POST, PUT or PATCH when it is not empty; else none.
StatedBody(q) ==
  IF q.body # Undefined
    THEN (IF JSONparse(q.body.s).ok THEN JSONparse(q.body.s).v ELSE q.body)
  ELSE IF q.method \in {"POST", "PUT", "PATCH"} /\ KeyCount(q.reqBody) > 0
    THEN q.reqBody
  ELSE Undefined

\* C5: on /{code} and /random/{range} the custom body is resolved in the
\* order body parameter (JSON-decoded, raw text when decoding fails),
\* request body of a POST, PUT or PATCH when not empty, none.
C5_BodyPriority ==
  \A r \in Reqs : Took(r, "resolve") => customBody[r] = StatedBody(req[r])

\* C6: a resolved custom body is sent with the selected status code in
\* place of the envelope: an object or an array as JSON, any other value as
\* text/plain.
C6_CustomBodyPassthrough ==
  \A r \in Reqs :
    (Took(r, "reply") /\ customBody[r] # Undefined) =>
      LET b == customBody[r]
      IN  /\ res[r].status = IntOf(statusCode[r])
          /\ IF b.t \in {"object", "array"}
               THEN res[r].ctype = "application/json" /\ res[r].body = b
               ELSE /\ res[r].ctype = "text/plain"
                    /\ res[r].body.t = "string"
                    /\ b.t = "string" => res[r].body = b
                    /\ b.t = "number" => ToNumber(res[r].body.s) = b.n
                    /\ b.t = "boolean" => tryParseJSON(res[r].body.s) = b
                    /\ b.t \in {"string", "number", "boolean"}

C6_Witness ==
  \E r \in Reqs :
    /\ Took(r, "reply") /\ req[r].route = "code"
    /\ req[r].body = Str(<<"{", "\"", "a", "\"", ":", "1", "}">>)
    /\ customBody[r] = Obj(<< << <<"a">>, Num(Fin(1, 1)) >> >>)
    /\ res[r].status = 404 /\ res[r].ctype = "application/json"
    /\ res[r].body = customBody[r]

PositiveCount(sleep) ==
  /\ sleep.t = "string"
  /\ LET n == ToNumber(sleep.s)
     IN  n.k = "fin" /\ n.num % n.den = 0 /\ n.num > 0

\* C9: a sleep value that is not a positive integer count of milliseconds
\* (absent, not a number, negative, zero) causes no delay and no error.
C9_InvalidSleepIgnored ==
  \A r \in Reqs :
    (req[r].route \in {"code", "random"} /\ ~PositiveCount(req[r].sleep)) =>
      /\ ~Took(r, "delay")
      /\ Took(r, "reply") => replyTimeObj[r] = startTimeObj[r]

\* The code of a redirect request is an integer in 300..308.
RedirectCodeGiven(q) ==
  LET v == ToNumber(q.param)
  IN  v.k = "fin" /\ v.num % v.den = 0 /\ v.num \div v.den \in 300..308

\* C10, as stated: GET /redirect/{code} redirects with status code to the
\* to parameter if and only if code is an integer in 300..308 and a to
\* parameter is present; otherwise it answers 400.
C10_RedirectIffTargetPresent ==
  \A r \in Reqs :
    (pc[r] = "done" /\ req[r].route = "redirect") =>
      IF RedirectCodeGiven(req[r]) /\ req[r].to # Undefined
        THEN /\ res[r].kind = "redirect"
             /\ res[r].status = IntOf(ToNumber(req[r].param))
             /\ res[r].location = req[r].to
        ELSE res[r].kind = "send" /\ res[r].status = 400

\* C10, amended: GET /redirect/{code} redirects with status code to the to
\* parameter if and only if code is an integer in 300..308 and a to
\* parameter is present and not empty; otherwise it answers 400. The
\* target is taken as given.
C10_RedirectIffTargetGiven ==
  \A r \in Reqs :
    (pc[r] = "done" /\ req[r].route = "redirect") =>
      IF RedirectCodeGiven(req[r]) /\ req[r].to # Undefined /\ req[r].to.s # <<>>
        THEN /\ res[r].kind = "redirect"
             /\ res[r].status = IntOf(ToNumber(req[r].param))
             /\ res[r].location = req[r].to
        ELSE res[r].kind = "send" /\ res[r].status = 400

C10_Witness ==
  \E r \in Reqs :
    /\ pc[r] = "done" /\ req[r].route = "redirect"
    /\ req[r].param = NatToChars(308)
    /\ req[r].to = Str(<<"n", "o", "w", "h", "e", "r", "e">>)
    /\ res[r].kind = "redirect" /\ res[r].status = 308
    /\ res[r].location = req[r].to

\* A validation failure as the client sees it: status 400 sent with one of
\* the handlers' messages, with no content type chosen.
ValidationFailure(r) ==
  /\ pc[r] = "done"
  /\ res[r].kind = "send" /\ res[r].ctype = "default" /\ res[r].status = 400

\* C11: a request answered with a validation failure has started no delay
\* and resolved no body: its steps show neither before the rejection, no
\* timer was set, no custom body was computed and no reply time was read.
C11_RejectBeforeWork ==
  \A r \in DOMAIN pc :
    ValidationFailure(r) =>
      /\ Took(r, "reject")
      /\ \A i \in 1..Len(trace[r]) : trace[r][i] \notin {"delay", "resolve", "reply"}
      /\ timerDue[r] = -1
      /\ customBody[r] = Undefined
      /\ replyTimeObj[r] = -1

\* A reversed range asked for with a delay and a body parameter is refused.
C11_Witness ==
  \E r \in DOMAIN pc :
    /\ ValidationFailure(r)
    /\ req[r].route = "random"
    /\ req[r].param = <<"7", "0", "0", "-", "6", "5", "0">>
    /\ req[r].sleep = Str(<<"2">>)
    /\ req[r].body = Str(<<"h", "e", "l", "l", "o">>)

\* All that the handler of request r holds.
OwnSlot(r) ==
  << pc[r], req[r], startTimeObj[r], statusCode[r], codes[r], timerDue[r],
     customBody[r], replyTimeObj[r], res[r], trace[r] >>

\* While request r awaits its timer, any other request can take its next
\* step: be handled if it has just arrived, resume if its own timer is due.
NotBlockedBy(r) ==
  \A o \in ConcReqs \ {r} :
    /\ pc[o] = "idle" =>
         /\ \A q \in ConcCodeRequests : ENABLED CodeHandler(o, q)
         /\ \A q \in ConcRandomRequests : ENABLED RandomHandler(o, q)
         /\ \A q \in ConcRedirectRequests : ENABLED RedirectHandler(o, q)
    /\ (pc[o] = "sleeping" /\ now >= timerDue[o]) => ENABLED TimerFire(o)

\* The response of a delayed request, from what that request alone holds.
OwnResponse(r) ==
  Compose(IntOf(statusCode[r]), req[r].param, getStatusDescription(statusCode[r]),
          startTimeObj[r], replyTimeObj[r], ResolveBody(req[r]))

\* A step belongs to one request, and a response once sent stays as sent.
OneRequestPerStep ==
  \A r \in ConcReqs :
    /\ OwnSlot(r)' # OwnSlot(r) => \A o \in ConcReqs \ {r} : OwnSlot(o)' = OwnSlot(o)
    /\ res[r] # NoResponse => res'[r] = res[r]
    /\ (pc[r] = "sleeping" /\ pc'[r] # "sleeping") => (pc'[r] = "done" /\ Answered(r)')

\* C12: with several requests in flight, a request awaiting its timer blocks
\* no other request; every step changes the state of one request only; a
\* request that starts a delay is eventually answered once the delay is over,
\* exactly once, and its response is the one its own inputs, its own times
\* and its own status code give.
C12_DelayIsolated ==
  /\ [](\A r \in ConcReqs : pc[r] = "sleeping" => NotBlockedBy(r))
  /\ [](\A r \in ConcReqs :
          (pc[r] = "done" /\ Took(r, "delay")) =>
            /\ res[r] = OwnResponse(r)
            /\ replyTimeObj[r] >= timerDue[r]
            /\ Cardinality({ i \in 1..Len(trace[r]) : trace[r][i] = "reply" }) = 1)
  /\ [][OneRequestPerStep]_vars
  /\ (\A r \in ConcReqs : (pc[r] = "sleeping") ~> (Answered(r) /\ Took(r, "delay")))

\* Two requests were asleep together, and the one with the shorter delay
\* has been answered while the timer of the other is not yet due.
C12_Witness ==
  \E r \in ConcReqs : \E o \in ConcReqs \ {r} :
    /\ pc[r] = "sleeping" /\ now < timerDue[r]
    /\ Answered(o) /\ Took(o, "delay")
    /\ startTimeObj[o] <= replyTimeObj[o] /\ startTimeObj[r] < replyTimeObj[o]
    /\ res[o] = OwnResponse(o)

====
